---- MODULE Spec2Model ----
(***************************************************************************)
(* The training driver `train` of src/train.py: the epoch loop, its two    *)
(* evaluations, the epoch function (rollout, device placement, gradient    *)
(* step), the timers and the logger scope.                                 *)
(*                                                                         *)
(* The agent, the evaluators and jax.random are external.  A deterministic *)
(* external function is modelled by the term built from its arguments, so  *)
(* two results are equal only if the arguments are.                        *)
(***************************************************************************)
EXTENDS Integers, Sequences, FiniteSets

\* ------------------------------------------------------------------ bounds

\* cfg.env.training.num_epochs ranges over 0..MaxEpochs.
MaxEpochs == 2

\* Sizes of the leading (device/replica) axis of the initial TrainingState:
\* one local device, or two.
Replicas == {1, 2}

\* num_epochs of the runs that are repeated (SpecRerun) ranges over
\* 0..RerunEpochs.
RerunEpochs == 1

\* Wall-clock readings of a Timer scope (a short and a long one).
Elapsed == {1, 2}

\* cfg.seed
Seeds == {0, 1}

\* (n_steps, total_batch_size, num_learner_steps_per_epoch)
TrainingCfgs == {<<1, 1, 1>>, <<3, 2, 2>>}

\* jax.devices("cpu")[0] and an accelerator.
CpuDev == "cpu:0"
Devices == {CpuDev, "gpu:0"}

\* ------------------------------------------------------------------- state

VARIABLES
    cfg,              \* seed, n_steps, total_batch_size, num_learner_steps_per_epoch, num_epochs
    gpu_acting,       \* the gpu_acting argument of train
    agentIsRandom,    \* isinstance(agent, RandomAgent)
    primaryDev,       \* jax.devices()[0]
    replicas,         \* size of the replica axis setup_training_state creates
    pc,               \* position of train
    i,                \* loop index
    env_steps,
    key,
    init_key,
    stochastic_eval_key,
    greedy_eval_key,
    training_state,   \* train's training_state (with the replica axis)
    metrics,          \* train's metrics
    epoch_state,      \* epoch_fn's local training_state
    policy_params,    \* epoch_fn's locals
    acting_state,
    data,
    released,         \* number of logger.__exit__ calls
    failed,           \* an exception is propagating / has propagated
    run,              \* 1 for the first call of train, 2 for the second
    prevWrites,       \* the logger writes of the previous run
    \* history
    writes,           \* logger.write calls of this run
    trace,            \* operations of this run, in order
    evals,            \* run_evaluation calls: epoch, kind, params_state, key
    keyUses,          \* keys consumed (by split, by setup, by an evaluation)
    rolloutCalls,     \* agent.rollout calls: arguments and results
    gradCalls,        \* agent.gradient_step calls: arguments
    devicePuts,       \* jax.device_put calls of this run
    epochIn           \* shape of the TrainingState passed to the last epoch_fn call

cfgVars == <<cfg, gpu_acting, agentIsRandom, primaryDev, replicas>>
progVars == <<pc, i, env_steps, key, init_key, stochastic_eval_key, greedy_eval_key,
              training_state, metrics, epoch_state, policy_params, acting_state,
              data, released, failed>>
histVars == <<writes, trace, evals, keyUses, rolloutCalls, gradCalls, devicePuts, epochIn>>
vars == <<cfgVars, progVars, histVars, run, prevWrites>>

\* ---------------------------------------------------------------- helpers

\* None / an unbound local.
None == [none |-> TRUE]

\* jax.random.PRNGKey(seed): the root of the key tree.
PRNGKey(seed) == <<seed>>

\* jax.random.split(k, num): child j of k is the path of k extended by j.
RandomSplit(k, num) == [j \in 1..num |-> Append(k, j - 1)]

\* num_steps_per_epoch (lines 72-76).
NumStepsPerEpoch(c) == c.n_steps * c.total_batch_size * c.num_learner_steps_per_epoch

\* Mutant: the steps counted after the epoch instead of before it.
EnvSteps_AfterEpoch(c, epoch) == (epoch + 1) * NumStepsPerEpoch(c)

\* env_steps = i * num_steps_per_epoch (line 114).
EnvSteps(c, epoch) == epoch * NumStepsPerEpoch(c)

\* jax.device_put(x, device=d)
DevicePut(x, d) == [x EXCEPT !.dev = d]

\* Mutant: the split's first child is dropped and the old key kept.
SplitEpochKeys_KeepKey(k) == <<k, RandomSplit(k, 3)[2], RandomSplit(k, 3)[3]>>

\* key, stochastic_eval_key, greedy_eval_key = jax.random.split(key, 3) (line 117).
SplitEpochKeys(k) == RandomSplit(k, 3)

\* Mutant: the greedy evaluation is skipped for every agent.
AfterStochasticWrite_NoGreedy(rnd) == "place"

\* if not isinstance(agent, RandomAgent) (line 129): the statement that follows.
AfterStochasticWrite(rnd) == IF ~rnd THEN "greedy_eval" ELSE "place"

\* Mutant: the rollout's results stay where the rollout ran.
RelocateResult_Stay(x, gpu, prim) == x

\* lines 99-100: device_put to jax.devices()[0] unless gpu_acting.
RelocateResult(x, gpu, prim) == IF ~gpu THEN DevicePut(x, prim) ELSE x

\* Mutant: the rollout's acting state is not merged.
MergeActingState_Omitted(ts, as) == ts

\* training_state._replace(acting_state=acting_state) (line 102).
MergeActingState(ts, as) == [ts EXCEPT !.acting_state = as]

\* jax.tree_map(lambda x: x[0], training_state): drops the leading axis.
StripReplicaAxis(ts) == [ts EXCEPT !.shape = Tail(@)]

\* jax.tree_map(lambda x: x[None], training_state): a new leading axis of size 1.
AttachReplicaAxis(ts) == [ts EXCEPT !.shape = <<1>> \o @]

\* setup_training_state(env, agent, init_key), replicated over `repl` devices.
SetupTrainingState(k, repl, dev) ==
    [params_state |-> [init |-> k, updates |-> 0, dev |-> dev],
     acting_state |-> [init |-> k, rollouts |-> 0, dev |-> dev],
     shape |-> <<repl>>]

\* evaluator.run_evaluation(params_state, key): a deterministic function of both.
RunEvaluation(kind, params_state, k) ==
    [kind |-> kind, init |-> params_state.init, updates |-> params_state.updates, key |-> k]

\* utils.first_from_device(metrics)
FirstFromDevice(m) == [m EXCEPT !.result = [first_of |-> @]]

\* agent.rollout(policy_params, acting_state): the new acting state and the
\* trajectory, both on the device the computation ran on.
RolloutActingState(pp, as) == [as EXCEPT !.rollouts = @ + 1]
RolloutData(pp, as, serial) ==
    [traj |-> serial, policy |-> pp.updates, acting |-> as.rollouts, dev |-> as.dev]

\* agent.gradient_step(training_state, data): the new state (same shape).
GradientStepState(ts, d) == [ts EXCEPT !.params_state.updates = @ + 1]
GradientStepMetrics(ts, d) ==
    [updates |-> ts.params_state.updates, rollouts |-> ts.acting_state.rollouts,
     traj |-> d.traj]

\* jax.tree_util.tree_map(jnp.mean, metrics)
TreeMean(m) == [mean_of |-> m]

\* Timer.__exit__: the elapsed time, and the throughput when the timer was
\* given num_steps_per_timing (0 stands for None).
TimerData(elapsed, num_steps_per_timing) ==
    IF num_steps_per_timing = 0 THEN <<elapsed>>
    ELSE <<elapsed, num_steps_per_timing \div elapsed>>

\* The Timer writes its data into the variable named by out_var_name.
TimerWrite(result, timing) == [result |-> result, timing |-> timing]

Event(op) == [op |-> op, epoch |-> i]

\* -------------------------------------------------------------------- Init

\* The state train is in when it reaches the `with` statement (line 109).
AtLoggerScope(c, gpu, rnd, prim, repl) ==
    /\ cfg = c
    /\ replicas = repl
    /\ gpu_acting = gpu
    /\ agentIsRandom = rnd
    /\ primaryDev = prim
    /\ pc = "enter"
    /\ i = 0
    /\ env_steps = 0
    /\ key = RandomSplit(PRNGKey(c.seed), 2)[1]
    /\ init_key = RandomSplit(PRNGKey(c.seed), 2)[2]
    /\ stochastic_eval_key = None
    /\ greedy_eval_key = None
    /\ training_state = SetupTrainingState(RandomSplit(PRNGKey(c.seed), 2)[2], repl, prim)
    /\ metrics = None
    /\ epoch_state = None
    /\ policy_params = None
    /\ acting_state = None
    /\ data = None
    /\ released = 0
    /\ failed = FALSE
    /\ writes = <<>>
    /\ trace = <<>>
    /\ evals = <<>>
    /\ keyUses = <<PRNGKey(c.seed), RandomSplit(PRNGKey(c.seed), 2)[2]>>
    /\ rolloutCalls = <<>>
    /\ gradCalls = <<>>
    /\ devicePuts = 0
    /\ epochIn = <<>>

Configs(maxEpochs) ==
    {[seed |-> s, n_steps |-> t[1], total_batch_size |-> t[2],
      num_learner_steps_per_epoch |-> t[3], num_epochs |-> n] :
        s \in Seeds, t \in TrainingCfgs, n \in 0..maxEpochs}

Init ==
    /\ \E c \in Configs(MaxEpochs), gpu \in BOOLEAN, rnd \in BOOLEAN,
          prim \in Devices, repl \in Replicas :
            AtLoggerScope(c, gpu, rnd, prim, repl)
    /\ run = 1
    /\ prevWrites = <<>>

\* ----------------------------------------------------------------- actions

\* line 109: logger.__enter__
EnterLogger ==
    /\ pc = "enter"
    /\ pc' = "loop"
    /\ UNCHANGED <<cfgVars, i, env_steps, key, init_key, stochastic_eval_key,
                   greedy_eval_key, training_state, metrics, epoch_state,
                   policy_params, acting_state, data, released, failed,
                   histVars, run, prevWrites>>

\* lines 110-117: the next iteration, env_steps and the three sub-keys.
NextEpoch ==
    /\ pc = "loop"
    /\ i < cfg.num_epochs
    /\ env_steps' = EnvSteps(cfg, i)
    /\ key' = SplitEpochKeys(key)[1]
    /\ stochastic_eval_key' = SplitEpochKeys(key)[2]
    /\ greedy_eval_key' = SplitEpochKeys(key)[3]
    /\ keyUses' = Append(keyUses, key)
    /\ trace' = Append(trace, Event("split"))
    /\ pc' = "stochastic_eval"
    /\ UNCHANGED <<cfgVars, i, init_key, training_state, metrics, epoch_state,
                   policy_params, acting_state, data, released, failed,
                   writes, evals, rolloutCalls, gradCalls, devicePuts, epochIn,
                   run, prevWrites>>

\* Mutant: the loop stops one iteration early.
LoopDone_Early ==
    /\ pc = "loop"
    /\ i >= cfg.num_epochs - 1
    /\ pc' = "exit"
    /\ UNCHANGED <<cfgVars, i, env_steps, key, init_key, stochastic_eval_key,
                   greedy_eval_key, training_state, metrics, epoch_state,
                   policy_params, acting_state, data, released, failed,
                   histVars, run, prevWrites>>

\* lines 110-113: the range is exhausted, the `with` body ends.
LoopDone ==
    /\ pc = "loop"
    /\ i >= cfg.num_epochs
    /\ pc' = "exit"
    /\ UNCHANGED <<cfgVars, i, env_steps, key, init_key, stochastic_eval_key,
                   greedy_eval_key, training_state, metrics, epoch_state,
                   policy_params, acting_state, data, released, failed,
                   histVars, run, prevWrites>>

\* lines 119-123: stochastic evaluation under eval_timer.
StochasticEval ==
    /\ pc = "stochastic_eval"
    /\ \E t \in Elapsed :
         metrics' = TimerWrite(RunEvaluation("stochastic", training_state.params_state,
                                             stochastic_eval_key),
                               TimerData(t, 0))
    /\ evals' = Append(evals, [epoch |-> i, kind |-> "stochastic",
                               params_state |-> training_state.params_state,
                               key |-> stochastic_eval_key])
    /\ keyUses' = Append(keyUses, stochastic_eval_key)
    /\ trace' = Append(trace, Event("stochastic_eval"))
    /\ pc' = "write_stochastic"
    /\ UNCHANGED <<cfgVars, i, env_steps, key, init_key, stochastic_eval_key,
                   greedy_eval_key, training_state, epoch_state, policy_params,
                   acting_state, data, released, failed, writes, rolloutCalls,
                   gradCalls, devicePuts, epochIn, run, prevWrites>>

\* lines 124-129: logger.write(label="eval_stochastic"), then the isinstance test.
WriteStochastic ==
    /\ pc = "write_stochastic"
    /\ writes' = Append(writes, [label |-> "eval_stochastic", env_steps |-> env_steps,
                                 data |-> FirstFromDevice(metrics), epoch |-> i])
    /\ trace' = Append(trace, Event("write_eval_stochastic"))
    /\ pc' = AfterStochasticWrite(agentIsRandom)
    /\ UNCHANGED <<cfgVars, i, env_steps, key, init_key, stochastic_eval_key,
                   greedy_eval_key, training_state, metrics, epoch_state,
                   policy_params, acting_state, data, released, failed, evals,
                   keyUses, rolloutCalls, gradCalls, devicePuts, epochIn,
                   run, prevWrites>>

\* lines 131-135: greedy evaluation under eval_timer.
GreedyEval ==
    /\ pc = "greedy_eval"
    /\ \E t \in Elapsed :
         metrics' = TimerWrite(RunEvaluation("greedy", training_state.params_state,
                                             greedy_eval_key),
                               TimerData(t, 0))
    /\ evals' = Append(evals, [epoch |-> i, kind |-> "greedy",
                               params_state |-> training_state.params_state,
                               key |-> greedy_eval_key])
    /\ keyUses' = Append(keyUses, greedy_eval_key)
    /\ trace' = Append(trace, Event("greedy_eval"))
    /\ pc' = "write_greedy"
    /\ UNCHANGED <<cfgVars, i, env_steps, key, init_key, stochastic_eval_key,
                   greedy_eval_key, training_state, epoch_state, policy_params,
                   acting_state, data, released, failed, writes, rolloutCalls,
                   gradCalls, devicePuts, epochIn, run, prevWrites>>

\* lines 136-140: logger.write(label="eval_greedy").
WriteGreedy ==
    /\ pc = "write_greedy"
    /\ writes' = Append(writes, [label |-> "eval_greedy", env_steps |-> env_steps,
                                 data |-> FirstFromDevice(metrics), epoch |-> i])
    /\ trace' = Append(trace, Event("write_eval_greedy"))
    /\ pc' = "place"
    /\ UNCHANGED <<cfgVars, i, env_steps, key, init_key, stochastic_eval_key,
                   greedy_eval_key, training_state, metrics, epoch_state,
                   policy_params, acting_state, data, released, failed, evals,
                   keyUses, rolloutCalls, gradCalls, devicePuts, epochIn,
                   run, prevWrites>>

\* lines 84-92: epoch_fn strips the replica axis and places the rollout's inputs.
Place ==
    /\ pc = "place"
    /\ epochIn' = training_state.shape
    /\ epoch_state' = StripReplicaAxis(training_state)
    /\ IF ~gpu_acting
       THEN /\ policy_params' = DevicePut(training_state.params_state, CpuDev)
            /\ acting_state' = DevicePut(training_state.acting_state, CpuDev)
            /\ devicePuts' = devicePuts + 1
       ELSE /\ policy_params' = training_state.params_state
            /\ acting_state' = training_state.acting_state
            /\ devicePuts' = devicePuts
    /\ pc' = "rollout"
    /\ UNCHANGED <<cfgVars, i, env_steps, key, init_key, stochastic_eval_key,
                   greedy_eval_key, training_state, metrics, data, released,
                   failed, writes, trace, evals, keyUses, rolloutCalls, gradCalls,
                   run, prevWrites>>

\* lines 94-97: agent.rollout.
Rollout ==
    /\ pc = "rollout"
    /\ acting_state' = RolloutActingState(policy_params, acting_state)
    /\ data' = RolloutData(policy_params, acting_state, Len(rolloutCalls) + 1)
    /\ rolloutCalls' = Append(rolloutCalls,
                              [epoch |-> i, policy_params |-> policy_params,
                               acting_state |-> acting_state,
                               out_acting_state |-> acting_state', out_data |-> data'])
    /\ trace' = Append(trace, Event("rollout"))
    /\ pc' = "relocate"
    /\ UNCHANGED <<cfgVars, i, env_steps, key, init_key, stochastic_eval_key,
                   greedy_eval_key, training_state, metrics, epoch_state,
                   policy_params, released, failed, writes, evals, keyUses,
                   gradCalls, devicePuts, epochIn, run, prevWrites>>

\* lines 99-102: the results go to the primary device; the acting state is merged.
Relocate ==
    /\ pc = "relocate"
    /\ acting_state' = RelocateResult(acting_state, gpu_acting, primaryDev)
    /\ data' = RelocateResult(data, gpu_acting, primaryDev)
    /\ devicePuts' = IF ~gpu_acting THEN devicePuts + 1 ELSE devicePuts
    /\ epoch_state' = MergeActingState(epoch_state, acting_state')
    /\ pc' = "gradient_step"
    /\ UNCHANGED <<cfgVars, i, env_steps, key, init_key, stochastic_eval_key,
                   greedy_eval_key, training_state, metrics, policy_params,
                   released, failed, writes, trace, evals, keyUses, rolloutCalls,
                   gradCalls, epochIn, run, prevWrites>>

\* Mutant: the state epoch_fn returns is not kept.
GradientStep_Discarded ==
    /\ pc = "gradient_step"
    /\ gradCalls' = Append(gradCalls, [epoch |-> i, training_state |-> epoch_state,
                                       data |-> data])
    /\ training_state' = training_state
    /\ \E t \in Elapsed :
         metrics' = TimerWrite(TreeMean(GradientStepMetrics(epoch_state, data)),
                               TimerData(t, NumStepsPerEpoch(cfg)))
    /\ epoch_state' = None
    /\ policy_params' = None
    /\ acting_state' = None
    /\ data' = None
    /\ trace' = Append(trace, Event("gradient_step"))
    /\ pc' = "write_train"
    /\ UNCHANGED <<cfgVars, i, env_steps, key, init_key, stochastic_eval_key,
                   greedy_eval_key, released, failed, writes, evals, keyUses,
                   rolloutCalls, devicePuts, epochIn, run, prevWrites>>

\* lines 103-107 and 143-145: the gradient step, the mean of its metrics, the
\* replica axis re-attached; epoch_fn returns (its locals are gone) and
\* train_timer closes.
GradientStep ==
    /\ pc = "gradient_step"
    /\ gradCalls' = Append(gradCalls, [epoch |-> i, training_state |-> epoch_state,
                                       data |-> data])
    /\ training_state' = AttachReplicaAxis(GradientStepState(epoch_state, data))
    /\ \E t \in Elapsed :
         metrics' = TimerWrite(TreeMean(GradientStepMetrics(epoch_state, data)),
                               TimerData(t, NumStepsPerEpoch(cfg)))
    /\ epoch_state' = None
    /\ policy_params' = None
    /\ acting_state' = None
    /\ data' = None
    /\ trace' = Append(trace, Event("gradient_step"))
    /\ pc' = "write_train"
    /\ UNCHANGED <<cfgVars, i, env_steps, key, init_key, stochastic_eval_key,
                   greedy_eval_key, released, failed, writes, evals, keyUses,
                   rolloutCalls, devicePuts, epochIn, run, prevWrites>>

\* lines 146-150: logger.write(label="train"); the iteration ends.
WriteTrain ==
    /\ pc = "write_train"
    /\ writes' = Append(writes, [label |-> "train", env_steps |-> env_steps,
                                 data |-> metrics, epoch |-> i])
    /\ trace' = Append(trace, Event("write_train"))
    /\ i' = i + 1
    /\ pc' = "loop"
    /\ UNCHANGED <<cfgVars, env_steps, key, init_key, stochastic_eval_key,
                   greedy_eval_key, training_state, metrics, epoch_state,
                   policy_params, acting_state, data, released, failed, evals,
                   keyUses, rolloutCalls, gradCalls, devicePuts, epochIn,
                   run, prevWrites>>

\* The statements of the loop body that call external code and may raise.
Raising == {"stochastic_eval", "write_stochastic", "greedy_eval", "write_greedy",
            "place", "rollout", "relocate", "gradient_step", "write_train"}

\* Mutant: the exception leaves train without passing the logger scope.
Raise_Unscoped ==
    /\ pc \in Raising
    /\ failed' = TRUE
    /\ pc' = "done"
    /\ UNCHANGED <<cfgVars, i, env_steps, key, init_key, stochastic_eval_key,
                   greedy_eval_key, training_state, metrics, epoch_state,
                   policy_params, acting_state, data, released, histVars,
                   run, prevWrites>>

\* lines 116-150: an exception in the loop body leaves the `with` body.
Raise ==
    /\ pc \in Raising
    /\ failed' = TRUE
    /\ pc' = "exit"
    /\ UNCHANGED <<cfgVars, i, env_steps, key, init_key, stochastic_eval_key,
                   greedy_eval_key, training_state, metrics, epoch_state,
                   policy_params, acting_state, data, released, histVars,
                   run, prevWrites>>

\* line 109: logger.__exit__, on either way out of the `with` body.
ExitLogger ==
    /\ pc = "exit"
    /\ released' = released + 1
    /\ trace' = Append(trace, Event("release"))
    /\ pc' = "done"
    /\ UNCHANGED <<cfgVars, i, env_steps, key, init_key, stochastic_eval_key,
                   greedy_eval_key, training_state, metrics, epoch_state,
                   policy_params, acting_state, data, failed, writes, evals,
                   keyUses, rolloutCalls, gradCalls, devicePuts, epochIn,
                   run, prevWrites>>

\* Mutant: the key of the previous run is kept instead of the seed's.
Rerun_KeepKey ==
    /\ pc = "done"
    /\ ~failed
    /\ run = 1
    /\ run' = 2
    /\ prevWrites' = writes
    /\ UNCHANGED cfgVars
    /\ pc' = "enter"
    /\ i' = 0
    /\ env_steps' = 0
    /\ key' = key
    /\ init_key' = RandomSplit(PRNGKey(cfg.seed), 2)[2]
    /\ stochastic_eval_key' = None
    /\ greedy_eval_key' = None
    /\ training_state' = SetupTrainingState(RandomSplit(PRNGKey(cfg.seed), 2)[2],
                                            replicas, primaryDev)
    /\ metrics' = None
    /\ epoch_state' = None
    /\ policy_params' = None
    /\ acting_state' = None
    /\ data' = None
    /\ released' = 0
    /\ failed' = FALSE
    /\ writes' = <<>>
    /\ trace' = <<>>
    /\ evals' = <<>>
    /\ keyUses' = <<PRNGKey(cfg.seed), RandomSplit(PRNGKey(cfg.seed), 2)[2]>>
    /\ rolloutCalls' = <<>>
    /\ gradCalls' = <<>>
    /\ devicePuts' = 0
    /\ epochIn' = <<>>

\* lines 44-80: train is called again with the same arguments, on the same
\* machine, after a run that returned normally.
Rerun ==
    /\ pc = "done"
    /\ ~failed
    /\ run = 1
    /\ run' = 2
    /\ prevWrites' = writes
    /\ UNCHANGED cfgVars
    /\ pc' = "enter"
    /\ i' = 0
    /\ env_steps' = 0
    /\ key' = RandomSplit(PRNGKey(cfg.seed), 2)[1]
    /\ init_key' = RandomSplit(PRNGKey(cfg.seed), 2)[2]
    /\ stochastic_eval_key' = None
    /\ greedy_eval_key' = None
    /\ training_state' = SetupTrainingState(RandomSplit(PRNGKey(cfg.seed), 2)[2],
                                            replicas, primaryDev)
    /\ metrics' = None
    /\ epoch_state' = None
    /\ policy_params' = None
    /\ acting_state' = None
    /\ data' = None
    /\ released' = 0
    /\ failed' = FALSE
    /\ writes' = <<>>
    /\ trace' = <<>>
    /\ evals' = <<>>
    /\ keyUses' = <<PRNGKey(cfg.seed), RandomSplit(PRNGKey(cfg.seed), 2)[2]>>
    /\ rolloutCalls' = <<>>
    /\ gradCalls' = <<>>
    /\ devicePuts' = 0
    /\ epochIn' = <<>>

Next ==
    \/ EnterLogger
    \/ NextEpoch
    \/ LoopDone
    \/ StochasticEval
    \/ WriteStochastic
    \/ GreedyEval
    \/ WriteGreedy
    \/ Place
    \/ Rollout
    \/ Relocate
    \/ GradientStep
    \/ WriteTrain
    \/ Raise
    \/ ExitLogger

Spec == Init /\ [][Next]_vars

\* Two runs of train in a row, on a machine with one local device.
InitRerun ==
    /\ \E c \in Configs(RerunEpochs), gpu \in BOOLEAN, rnd \in BOOLEAN,
          prim \in Devices :
            AtLoggerScope(c, gpu, rnd, prim, 1)
    /\ run = 1
    /\ prevWrites = <<>>

NextRerun == Next \/ Rerun

SpecRerun == InitRerun /\ [][NextRerun]_vars

\* ------------------------------------------------------------- properties

\* C1: every logger.write issued during epoch i (labels "eval_stochastic",
\* "eval_greedy", "train"; i in 0..num_epochs-1) carries
\* env_steps = i * n_steps * total_batch_size * num_learner_steps_per_epoch.
C1_EnvStepsOfEpoch ==
    \A k \in 1..Len(writes) :
        /\ writes[k].epoch \in 0..(cfg.num_epochs - 1)
        /\ writes[k].label \in {"eval_stochastic", "eval_greedy", "train"}
        /\ writes[k].env_steps =
              writes[k].epoch * cfg.n_steps * cfg.total_batch_size
                  * cfg.num_learner_steps_per_epoch

\* All three labels have been written in an epoch after the first, with
\* n_steps, total_batch_size and num_learner_steps_per_epoch all different.
C1_Witness ==
    /\ cfg.n_steps = 3 /\ cfg.total_batch_size = 2
    /\ cfg.num_learner_steps_per_epoch = 2
    /\ \A l \in {"eval_stochastic", "eval_greedy", "train"} :
          \E k \in 1..Len(writes) :
              /\ writes[k].label = l
              /\ writes[k].epoch = 1
              /\ writes[k].env_steps = 12

\* C2: the logger is released exactly once per run, also when an exception
\* leaves the loop body, and no logger.write follows the release.
C2_ReleasedExactlyOnce ==
    /\ released <= 1
    /\ (pc = "done") <=> (released = 1)
    /\ Cardinality({k \in 1..Len(trace) : trace[k].op = "release"}) = released
    /\ \A k \in 1..Len(trace) : trace[k].op = "release" => k = Len(trace)

\* A run that an exception ended after some writes, with the logger released.
C2_Witness ==
    /\ pc = "done"
    /\ failed
    /\ released = 1
    /\ Len(writes) >= 1
    /\ trace[Len(trace)].op = "release"

\* The operations of one epoch, in the order of the loop body.
EpochOps ==
    IF agentIsRandom
    THEN <<"split", "stochastic_eval", "write_eval_stochastic",
           "rollout", "gradient_step", "write_train">>
    ELSE <<"split", "stochastic_eval", "write_eval_stochastic",
           "greedy_eval", "write_eval_greedy",
           "rollout", "gradient_step", "write_train">>

\* C3: in each epoch: stochastic evaluation, its write, (greedy evaluation,
\* its write,) rollout, gradient step, the "train" write, in this order, and
\* nothing of epoch i+1 before the "train" write of epoch i.
C3_EpochOrder ==
    \A k \in 1..Len(trace) :
        \/ /\ trace[k].op = "release"
           /\ k = Len(trace)
        \/ /\ trace[k].op = EpochOps[((k - 1) % Len(EpochOps)) + 1]
           /\ trace[k].epoch = (k - 1) \div Len(EpochOps)

\* The second epoch of an agent that is evaluated greedily has begun.
C3_Witness ==
    /\ ~agentIsRandom
    /\ \E k \in 1..Len(trace) : trace[k].op = "greedy_eval" /\ trace[k].epoch = 1
    /\ \E k \in 1..Len(trace) : trace[k].op = "write_train" /\ trace[k].epoch = 0

\* The sub-keys an epoch holds once it has split.
InEpoch == pc \notin {"enter", "loop", "exit", "done"} \/ (pc \in {"exit", "done"} /\ failed)

\* C4: with split producing distinct children on distinct paths, the two
\* evaluation keys of an epoch differ from each other, from the carry-forward
\* key, from init_key and from every evaluation key of another epoch; no key
\* is used twice.
C4_NoKeyReuse ==
    /\ \A j \in 1..Len(keyUses) : \A k \in 1..Len(keyUses) :
          j # k => keyUses[j] # keyUses[k]
    /\ \A k \in 1..Len(evals) : evals[k].key \notin {key, init_key}
    /\ \A j \in 1..Len(evals) : \A k \in 1..Len(evals) :
          j # k => evals[j].key # evals[k].key
    /\ InEpoch =>
          /\ stochastic_eval_key # greedy_eval_key
          /\ {stochastic_eval_key, greedy_eval_key} \cap {key, init_key} = {}
          /\ \A k \in 1..Len(evals) :
                evals[k].epoch # i =>
                    evals[k].key \notin {stochastic_eval_key, greedy_eval_key}

\* Both evaluations have run in two epochs.
C4_Witness ==
    /\ Len(evals) >= 4
    /\ evals[1].epoch = 0 /\ evals[2].epoch = 0
    /\ evals[3].epoch = 1 /\ evals[4].epoch = 1

\* C5: the TrainingState epoch_fn returns has the leading-axis shape of the
\* TrainingState it was passed, whatever the size of that axis.
C5_SameLeadingAxis ==
    pc = "write_train" => training_state.shape = epochIn

OnCpu(x) == [x EXCEPT !.dev = CpuDev]

\* C6: without gpu_acting, rollout is given policy parameters and acting
\* state on the CPU device, and gradient_step is given acting state and
\* trajectory on the primary device; with gpu_acting nothing is device_put.
C6_Placement ==
    /\ ~gpu_acting =>
          /\ \A k \in 1..Len(rolloutCalls) :
                /\ rolloutCalls[k].policy_params.dev = CpuDev
                /\ rolloutCalls[k].acting_state.dev = CpuDev
          /\ \A k \in 1..Len(gradCalls) :
                /\ gradCalls[k].training_state.acting_state.dev = primaryDev
                /\ gradCalls[k].data.dev = primaryDev
    /\ gpu_acting => devicePuts = 0

\* A gradient step has run without gpu_acting on a machine whose primary
\* device is not the CPU.
C6_Witness ==
    /\ ~gpu_acting
    /\ primaryDev # CpuDev
    /\ Len(gradCalls) >= 1
    /\ devicePuts >= 2

NumWrites(label, epoch) ==
    Cardinality({k \in 1..Len(writes) :
                    writes[k].label = label /\ writes[k].epoch = epoch})

NumOps(op, epoch) ==
    Cardinality({k \in 1..Len(trace) : trace[k].op = op /\ trace[k].epoch = epoch})

\* C7: a run without failure ends after exactly num_epochs epochs, each with
\* one "eval_stochastic" write, one "train" write, and one "eval_greedy"
\* write and greedy evaluation unless the agent is the random one (then none).
C7_WritesPerEpoch ==
    (pc = "done" /\ ~failed) =>
        /\ i = cfg.num_epochs
        /\ Len(gradCalls) = cfg.num_epochs
        /\ \A k \in 1..Len(writes) : writes[k].epoch \in 0..(cfg.num_epochs - 1)
        /\ \A e \in 0..(cfg.num_epochs - 1) :
              /\ NumWrites("eval_stochastic", e) = 1
              /\ NumWrites("train", e) = 1
              /\ NumWrites("eval_greedy", e) = (IF agentIsRandom THEN 0 ELSE 1)
              /\ NumOps("greedy_eval", e) = (IF agentIsRandom THEN 0 ELSE 1)

\* A run of two epochs of the random agent has returned.
C7_Witness ==
    /\ pc = "done" /\ ~failed
    /\ agentIsRandom
    /\ cfg.num_epochs = 2
    /\ Len(writes) = 4

InEpochFn == pc \in {"rollout", "relocate", "gradient_step"}

LoggedWrites(ws) ==
    [k \in 1..Len(ws) |-> <<ws[k].label, ws[k].env_steps, ws[k].data>>]

\* The same, without what the timers added to the metrics.
LoggedResults(ws) ==
    [k \in 1..Len(ws) |-> <<ws[k].label, ws[k].env_steps, ws[k].data.result>>]

SecondRunReturned == run = 2 /\ pc = "done" /\ ~failed

C10_EvaluatedParams ==
    /\ \A k \in 1..Len(evals) :
          /\ evals[k].params_state.updates = evals[k].epoch
          /\ evals[k].params_state.updates < cfg.num_epochs
          /\ evals[k].epoch <= Len(gradCalls)
    /\ \A j \in 1..Len(evals) : \A k \in 1..Len(evals) :
          evals[j].epoch = evals[k].epoch =>
              evals[j].params_state = evals[k].params_state
    /\ (pc = "done" /\ ~failed /\ cfg.num_epochs > 0) =>
          /\ training_state.params_state.updates = cfg.num_epochs
          /\ \A k \in 1..Len(evals) :
                evals[k].params_state # training_state.params_state

\* A run of two epochs has returned after four evaluations.
C10_Witness ==
    /\ pc = "done" /\ ~failed
    /\ cfg.num_epochs = 2
    /\ Len(evals) = 4
    /\ evals[4].params_state.updates = 1
    /\ training_state.params_state.updates = 2

====
